---- MODULE Spec2Model ----
(***************************************************************************)
(* A model of the libcache pinning LRU cache (src/src/libcache.c) together *)
(* with the chained hash index it is built on (src/src/hash.c).            *)
(*                                                                         *)
(* The intrusive list (include/list.h declares it, its implementation is   *)
(* not among the sources) and the per-cache slab pool (libpool.h) are      *)
(* modelled from the written specification, sections 4.1 and 4.2.          *)
(*                                                                         *)
(* Pointers are small integers.  NULL is 0.  A pointer whose target has    *)
(* been passed to free() holds the indeterminate value Dangling; reading   *)
(* through it is undefined behaviour and sets ub.                          *)
(***************************************************************************)
EXTENDS Integers, Sequences, FiniteSets, TLC

\* ------------------------------------------------------------------ bounds
\* max_entry_number handed to libcache_create
Capacity == 2
\* keys are the u32 values 0..MaxKey
MaxKey == 2
\* an entry's payload is one value of 0..MaxVal
MaxVal == 1
\* lookups that pin are offered while lock_counter is below this
MaxPins == 2
\* hash nodes beyond Capacity (clean leaves hash nodes behind)
MaxStale == 1

NULL == 0
Dangling == -1

Keys == 0..MaxKey
Vals == 0..MaxVal
\* "no buffer": src_entry == NULL, dst_entry == NULL
NoVal == MaxVal + 1
\* payload addresses are the pool's slot numbers
Slots == 1..Capacity
\* addresses malloc returns for cache list nodes and for hash nodes
NodeIds == 1..Capacity
HashIds == 1..(Capacity + MaxStale)
\* address of the caller's dst_entry buffer; it lies outside the pool
DstPtr == Capacity + 1

VARIABLES
    list,          \* libcache->list, head first: cache node addresses
    cnode,         \* the libcache_node_usr_data_t of every cache node
    bucket,        \* hash->bucket_list[i].list, head first: hash node addresses
    hnode,         \* the hash_data_t of every hash node
    entry_count,   \* hash->entry_count
    list_count,    \* hash->bucket_list[i].list_count
    hash_net,      \* history: hash_add calls minus hash_del calls that succeeded
    pool_free,     \* the pool's free list of slot descriptors
    pool_busy,     \* the slot descriptors on the pool's busy list
    reserved,      \* the reserved (owner) pointer of every pool slot
    mem,           \* the payload bytes of every pool slot
    pins,          \* history: pins taken minus pins given back, per entry
    call,          \* the last call: its arguments and what it returned
    ub,            \* undefined behaviour has happened
    destroyed,     \* libcache_destroy has run
    free_entry,    \* libcache->free_entry is not NULL
    freed,         \* history: the calls made to free_entry and free_memory
    free_list,     \* pool.free_list of the file-scope pool of pool.c, head first
    busy_list      \* pool.busy_list of the file-scope pool of pool.c, head first

vars == <<list, cnode, bucket, hnode, entry_count, list_count, hash_net,
          pool_free, pool_busy,
          reserved, mem, pins, call, ub, destroyed, free_entry, freed,
          free_list, busy_list>>

poolVars == <<free_list, busy_list>>

cacheVars == <<list, cnode, bucket, hnode, entry_count, list_count, hash_net,
               pool_free, pool_busy, reserved, mem, pins>>

NoCacheNode == [key |-> 0, hash_node_ptr |-> NULL, pool_element_ptr |-> NULL,
                lock_counter |-> 0]
NoHashNode == [key |-> 0, cache_node_ptr |-> NULL]

\* ----------------------------------------------------- sequences as lists
Range(s) == {s[i] : i \in 1..Len(s)}

list_push_front(l, node) == <<node>> \o l

list_push_back(l, node) == Append(l, node)

list_remove(l, node) == SelectSeq(l, LAMBDA x : x # node)

\* -------------------------------------------------------------- hash index
RECURSIVE get_bits_loop(_, _)
get_bits_loop(val, count) ==
    LET v == val \div 2
    IN  IF v # 0 THEN get_bits_loop(v, count + 1) ELSE count

\* while (val >>= 1 != 0) count++;   the shift amount is (1 != 0), i.e. 1
get_bits(val) == get_bits_loop(val, 1)

MAX_BUCKETS == 2147483647 * 2 + 1

get_bucket_number(val) == IF val >= 32 THEN MAX_BUCKETS ELSE 2 ^ val - 1

bits == get_bits(Capacity)
buckets_count == get_bucket_number(bits)

\* 0x9e370001 as two 16-bit halves
GOLDEN_HI == 40503
GOLDEN_LO == 1

\* (val * 0x9e370001 mod 2^32) >> (32 - b), for val < 2^15 and b < 32.
\* The product is kept as two 16-bit halves: the high half is
\* (val * 0x9e37 + carry of val * 0x0001) mod 2^16, the low half val * 0x0001
hash_32(val, b) ==
    LET lo == (val * GOLDEN_LO) % 65536
        hi == (val * GOLDEN_HI + ((val * GOLDEN_LO) \div 65536)) % 65536
    IN  IF b <= 16 THEN hi \div (2 ^ (16 - b))
        ELSE hi * (2 ^ (b - 16)) + lo \div (2 ^ (32 - b))

\* the embedder's key-to-integer projection: the key read as a u32
k2num(key) == key

\* the embedder's comparator: -1, 0 or 1
kcmp(a, b) == IF a = b THEN 0 ELSE IF a < b THEN -1 ELSE 1

key_to_hash(key) == hash_32(k2num(key), bits)

find_node(node, key) == kcmp(key, hnode[node].key)

\* visitor: 0 stops at the node, a positive value continues, a negative one
\* aborts the traversal with no result
RECURSIVE list_foreach_with_usr_data(_, _)
list_foreach_with_usr_data(l, key) ==
    IF l = <<>> THEN NULL
    ELSE LET r == find_node(Head(l), key)
         IN  IF r = 0 THEN Head(l)
             ELSE IF r < 0 THEN NULL
             ELSE list_foreach_with_usr_data(Tail(l), key)

\* a bucket whose list was never allocated is the empty sequence
hash_find(key) ==
    LET hash_code == key_to_hash(key)
    IN  IF hash_code > buckets_count THEN NULL
        ELSE list_foreach_with_usr_data(bucket[hash_code], key)

hash_get_count == entry_count

HashLive == UNION {Range(bucket[i]) : i \in 0..buckets_count}

\* malloc of a hash node for cache_node: the address that goes with the
\* cache node's own when it is not in use, else the lowest one not in use
malloc_hash(live, cache_node) ==
    IF cache_node \notin live THEN cache_node
    ELSE CHOOSE h \in HashIds \ live : \A g \in HashIds \ live : h <= g

\* hash_del: the three parts of the hash state after deleting hash_node
hash_del_bucket(b, key, hash_node) ==
    [b EXCEPT ![key_to_hash(key)] = list_remove(@, hash_node)]

hash_del_hnode(h, hash_node) == [h EXCEPT ![hash_node] = NoHashNode]

\* a hash_del that forgets bucket->list_count--
hash_del_list_count_kept(lc, key) == lc

hash_del_list_count(lc, key) == [lc EXCEPT ![key_to_hash(key)] = @ - 1]

\* a hash_del that forgets hash->entry_count--
hash_del_count_kept(c) == c

hash_del_count(c) == c - 1

\* hash_add: the three parts of the hash state after adding (key, cache_node)
\* in the node at address hash_node
hash_add_bucket(b, key, hash_node) ==
    [b EXCEPT ![key_to_hash(key)] = list_push_back(@, hash_node)]

hash_add_hnode(h, key, cache_node, hash_node) ==
    [h EXCEPT ![hash_node] = [key |-> key, cache_node_ptr |-> cache_node]]

hash_add_list_count(lc, key) == [lc EXCEPT ![key_to_hash(key)] = @ + 1]

hash_add_count(c) == c + 1

\* -------------------------------------------------------------- slab pool
\* acquire: the descriptor popped off the free list (NULL when it is empty)
pool_get_element(free) == IF free = <<>> THEN NULL ELSE free[Len(free)]

pool_get_free(free) == SubSeq(free, 1, Len(free) - 1)

pool_get_busy(busy, element) == busy \cup {element}

\* release: the descriptor moves from the busy list to the free list
pool_free_busy(busy, element) == busy \ {element}

pool_free_free(free, element) == list_push_back(free, element)

pool_set_reserved_pointer(r, element, owner) == [r EXCEPT ![element] = owner]

pool_get_reserved_pointer(element) == reserved[element]

\* free(node): every pointer that still holds the node's address dangles
FreeOwner(r, nodes) ==
    [s \in Slots |-> IF r[s] \in nodes THEN Dangling ELSE r[s]]

FreeCacheNodes(h, nodes) ==
    [g \in HashIds |->
        IF h[g].cache_node_ptr \in nodes
        THEN [h[g] EXCEPT !.cache_node_ptr = Dangling] ELSE h[g]]

\* -------------------------------------------------------------- cache core
LIBCACHE_SUCCESS == "LIBCACHE_SUCCESS"
LIBCACHE_FAILURE == "LIBCACHE_FAILURE"
LIBCACHE_NOT_FOUND == "LIBCACHE_NOT_FOUND"
LIBCACHE_LOCKED == "LIBCACHE_LOCKED"
LIBCACHE_UNLOCKED == "LIBCACHE_UNLOCKED"
NoRet == "-"

Rets == {LIBCACHE_SUCCESS, LIBCACHE_FAILURE, LIBCACHE_NOT_FOUND,
         LIBCACHE_LOCKED, LIBCACHE_UNLOCKED}

\* the last call and what it gave back:
\*   entry     the entry argument of unlock and delete_entry
\*   ret, ptr  the libcache_ret_t or the pointer returned
\*   dst       the content of the caller's dst_entry buffer afterwards
\*   victim    the cache node libcache_add swapped out, else NULL
Call(op, entry, ret, ptr, dst, victim) ==
    [op |-> op, entry |-> entry, ret |-> ret, ptr |-> ptr, dst |-> dst,
     victim |-> victim]

\* malloc of a cache list node: nodes and the pool elements they hold are
\* created and freed together, the node's address is named after the element
malloc_node(element) == element

\* a visitor that stops at the first node it sees, locked or not
libcache_get_unlock_node_any(node) == 0

\* a visitor with its two results swapped: it stops at the first locked node
libcache_get_unlock_node_swapped(node) ==
    IF cnode[node].lock_counter # 0 THEN 0 ELSE 1

\* the visitor of the eviction scan: 1 continues past a locked node, 0 stops
libcache_get_unlock_node(node) == IF cnode[node].lock_counter # 0 THEN 1 ELSE 0

RECURSIVE list_reverse_foreach(_)
list_reverse_foreach(l) ==
    IF l = <<>> THEN NULL
    ELSE LET node == l[Len(l)]
             r == libcache_get_unlock_node(node)
         IN  IF r = 0 THEN node
             ELSE IF r < 0 THEN NULL
             ELSE list_reverse_foreach(SubSeq(l, 1, Len(l) - 1))

\* the lock_counter libcache_add leaves on the entry it inserted
add_lock_counter(src) == IF src = NoVal THEN 1 ELSE 0

\* an add that clears the payload when it is given no src_entry
add_memcpy_or_clear(m, element, src) ==
    [m EXCEPT ![element] = IF src # NoVal THEN src ELSE 0]

\* the payload after libcache_add: src_entry is copied in when it is not NULL
add_memcpy(m, element, src) ==
    IF src # NoVal THEN [m EXCEPT ![element] = src] ELSE m

\* libcache_add returning NULL: duplicate key, or full with every entry locked
AddNone(key, src) ==
    /\ call' = Call("add", NULL, NoRet, NULL, NoVal, NULL)
    /\ UNCHANGED <<poolVars, cacheVars, ub, destroyed, free_entry, freed>>

\* libcache_add, the cache is full: swap the unlocked node v out and reuse it
AddSwap(key, src, v) ==
    LET d == cnode[v]
        element == d.pool_element_ptr
        b1 == hash_del_bucket(bucket, d.key, d.hash_node_ptr)
        h1 == hash_del_hnode(hnode, d.hash_node_ptr)
        c1 == hash_del_count(entry_count)
        live1 == UNION {Range(b1[i]) : i \in 0..buckets_count}
        hash_node == malloc_hash(live1, v)
    IN  /\ HashIds \ live1 # {}
        /\ mem' = add_memcpy(mem, element, src)
        /\ list' = list_push_front(list_remove(list, v), v)
        /\ bucket' = hash_add_bucket(b1, key, hash_node)
        /\ hnode' = hash_add_hnode(h1, key, v, hash_node)
        /\ entry_count' = hash_add_count(c1)
        /\ list_count' = hash_add_list_count(
                             hash_del_list_count(list_count, d.key), key)
        /\ hash_net' = hash_net - 1 + 1
        /\ cnode' = [cnode EXCEPT ![v] =
                        [key |-> key, hash_node_ptr |-> hash_node,
                         pool_element_ptr |-> element,
                         lock_counter |-> add_lock_counter(src)]]
        /\ pins' = [pins EXCEPT ![element] = IF src = NoVal THEN 1 ELSE 0]
        /\ call' = Call("add", NULL, NoRet, element, NoVal, v)
        /\ UNCHANGED <<poolVars, pool_free, pool_busy, reserved, ub, destroyed, free_entry, freed>>

\* an add that does not record the new node in its pool element
add_set_owner_skipped(r, element, node) == r

\* the new node becomes the owner recorded in its pool element
add_set_owner(r, element, node) == pool_set_reserved_pointer(r, element, node)

\* libcache_add, the cache is not full: a new node on a fresh pool element.
\* The free list is never empty here: busy elements are those of list nodes.
AddNew(key, src) ==
    LET element == pool_get_element(pool_free)
        node == malloc_node(element)
        hash_node == malloc_hash(HashLive, node)
    IN  /\ HashIds \ HashLive # {}
        /\ pool_free' = pool_get_free(pool_free)
        /\ pool_busy' = pool_get_busy(pool_busy, element)
        /\ mem' = add_memcpy(mem, element, src)
        /\ list' = list_push_front(list, node)
        /\ reserved' = add_set_owner(reserved, element, node)
        /\ bucket' = hash_add_bucket(bucket, key, hash_node)
        /\ hnode' = hash_add_hnode(hnode, key, node, hash_node)
        /\ entry_count' = hash_add_count(entry_count)
        /\ list_count' = hash_add_list_count(list_count, key)
        /\ hash_net' = hash_net + 1
        /\ cnode' = [cnode EXCEPT ![node] =
                        [key |-> key, hash_node_ptr |-> hash_node,
                         pool_element_ptr |-> element,
                         lock_counter |-> add_lock_counter(src)]]
        /\ pins' = [pins EXCEPT ![element] = IF src = NoVal THEN 1 ELSE 0]
        /\ call' = Call("add", NULL, NoRet, element, NoVal, NULL)
        /\ UNCHANGED <<poolVars, ub, destroyed, free_entry, freed>>

libcache_add(key, src) ==
    IF hash_find(key) # NULL THEN AddNone(key, src)
    ELSE IF Capacity <= Len(list)
         THEN LET v == list_reverse_foreach(list)
              IN  IF v = NULL THEN AddNone(key, src) ELSE AddSwap(key, src, v)
         ELSE AddNew(key, src)

Add ==
    /\ ~ub /\ ~destroyed
    /\ \E key \in Keys, src \in Vals \cup {NoVal} : libcache_add(key, src)

\* a read through a dangling pointer: the call may return anything
Undefined(op, entry) ==
    /\ ub' = TRUE
    /\ \E r \in Rets \cup {NoRet}, p \in Slots \cup {NULL, DstPtr} :
          call' = Call(op, entry, r, p, NoVal, NULL)
    /\ UNCHANGED <<poolVars, cacheVars, destroyed, free_entry, freed>>

LookupMiss(key, dst) ==
    /\ call' = Call("lookup", NULL, NoRet, NULL, NoVal, NULL)
    /\ UNCHANGED <<poolVars, cacheVars, ub, destroyed, free_entry, freed>>

\* a lookup that leaves the node it found where it is
lookup_promote_none(l, node) == l

\* the newest found node is put in front of the list
lookup_promote(l, node) == list_push_front(list_remove(l, node), node)

\* a lookup that locks the entry even when it copies it out to dst
lookup_lock_counter_always(c, dst) == c + 1

\* the lock_counter libcache_lookup leaves on the entry it found
lookup_lock_counter(c, dst) == IF dst = NULL THEN c + 1 ELSE c

LookupHit(key, dst, node) ==
    LET element == cnode[node].pool_element_ptr
    IN  /\ dst = NULL => cnode[node].lock_counter < MaxPins
        /\ cnode' = [cnode EXCEPT ![node].lock_counter =
                                      lookup_lock_counter(@, dst)]
        /\ pins' = IF dst = NULL THEN [pins EXCEPT ![element] = @ + 1] ELSE pins
        /\ list' = lookup_promote(list, node)
        /\ call' = IF dst = NULL
                   THEN Call("lookup", NULL, NoRet, element, NoVal, NULL)
                   ELSE Call("lookup", NULL, NoRet, dst, mem[element], NULL)
        /\ UNCHANGED <<poolVars, bucket, hnode, entry_count, list_count, hash_net,
                       pool_free, pool_busy,
                       reserved, mem, ub, destroyed, free_entry, freed>>

libcache_lookup(key, dst) ==
    LET hash_node == hash_find(key)
    IN  IF hash_node = NULL THEN LookupMiss(key, dst)
        ELSE LET node == hnode[hash_node].cache_node_ptr
             IN  IF node = NULL THEN LookupMiss(key, dst)
                 ELSE IF node = Dangling THEN Undefined("lookup", NULL)
                 ELSE LookupHit(key, dst, node)

Lookup ==
    /\ ~ub /\ ~destroyed
    /\ \E key \in Keys, dst \in {NULL, DstPtr} : libcache_lookup(key, dst)

\* a refusal that comes after the node at the LRU front was unlinked
Refuse_unlinked(op, entry, ret) ==
    /\ call' = Call(op, entry, ret, NULL, NoVal, NULL)
    /\ list' = IF list = <<>> THEN list ELSE Tail(list)
    /\ UNCHANGED <<poolVars, cnode, bucket, hnode, entry_count, list_count, hash_net,
                   pool_free, pool_busy,
                   reserved, mem, pins, ub, destroyed, free_entry, freed>>

Refuse(op, entry, ret) ==
    /\ call' = Call(op, entry, ret, NULL, NoVal, NULL)
    /\ UNCHANGED <<poolVars, cacheVars, ub, destroyed, free_entry, freed>>

\* may the node found for a key be deleted?
delete_allowed(node) == ~(cnode[node].lock_counter > 0)

DeleteNode(op, key, entry, node) ==
    LET d == cnode[node]
        element == d.pool_element_ptr
    IN  /\ bucket' = hash_del_bucket(bucket, key, d.hash_node_ptr)
        /\ hnode' = hash_del_hnode(hnode, d.hash_node_ptr)
        /\ entry_count' = hash_del_count(entry_count)
        /\ list_count' = hash_del_list_count(list_count, key)
        /\ hash_net' = hash_net - 1
        /\ pool_busy' = pool_free_busy(pool_busy, element)
        /\ pool_free' = pool_free_free(pool_free, element)
        /\ list' = list_remove(list, node)
        /\ cnode' = [cnode EXCEPT ![node] = NoCacheNode]
        /\ reserved' = FreeOwner(reserved, {node})
        /\ pins' = [pins EXCEPT ![element] = 0]
        /\ call' = Call(op, entry, LIBCACHE_SUCCESS, NULL, NoVal, NULL)
        /\ UNCHANGED <<poolVars, mem, ub, destroyed, free_entry, freed>>

\* op and entry name the public call that got here (libcache_delete_entry
\* delegates to libcache_delete_by_key)
libcache_delete_by_key(op, key, entry) ==
    LET hash_node == hash_find(key)
    IN  IF hash_node = NULL THEN Refuse(op, entry, LIBCACHE_NOT_FOUND)
        ELSE LET node == hnode[hash_node].cache_node_ptr
             IN  IF node = Dangling THEN Undefined(op, entry)
                 ELSE IF ~delete_allowed(node)
                      THEN Refuse(op, entry, LIBCACHE_LOCKED)
                      ELSE DeleteNode(op, key, entry, node)

DeleteByKey ==
    /\ ~ub /\ ~destroyed
    /\ \E key \in Keys : libcache_delete_by_key("delete_by_key", key, NULL)

\* entry is an address libcache_add or libcache_lookup returned for an entry
\* that is in the cache, or the address of a slot that never held one
ValidEntry(entry) == reserved[entry] # Dangling

libcache_delete_entry(entry) ==
    LET node == pool_get_reserved_pointer(entry)
    IN  IF node = NULL THEN Refuse("delete_entry", entry, LIBCACHE_NOT_FOUND)
        ELSE IF cnode[node].lock_counter > 0
             THEN Refuse("delete_entry", entry, LIBCACHE_LOCKED)
             ELSE libcache_delete_by_key("delete_entry",
                      hnode[cnode[node].hash_node_ptr].key, entry)

DeleteEntry ==
    /\ ~ub /\ ~destroyed
    /\ \E entry \in Slots : ValidEntry(entry) /\ libcache_delete_entry(entry)

\* an unlock that reports success without lock_counter--
unlock_counter_kept(c) == c

\* the lock_counter libcache_unlock_entry leaves on an entry it unlocked
unlock_counter(c) == c - 1

libcache_unlock_entry(entry) ==
    LET node == pool_get_reserved_pointer(entry)
    IN  IF node = NULL THEN Refuse("unlock", entry, LIBCACHE_NOT_FOUND)
        ELSE IF cnode[node].lock_counter = 0
             THEN Refuse("unlock", entry, LIBCACHE_UNLOCKED)
             ELSE /\ cnode' = [cnode EXCEPT ![node].lock_counter = unlock_counter(@)]
                  /\ pins' = [pins EXCEPT ![entry] = @ - 1]
                  /\ call' = Call("unlock", entry, LIBCACHE_SUCCESS, NULL, NoVal, NULL)
                  /\ UNCHANGED <<poolVars, list, bucket, hnode, entry_count, list_count, hash_net,
                                 pool_free,
                                 pool_busy, reserved, mem, ub, destroyed,
                                 free_entry, freed>>

Unlock ==
    /\ ~ub /\ ~destroyed
    /\ \E entry \in Slots : ValidEntry(entry) /\ libcache_unlock_entry(entry)

\* the pool elements of the nodes of l, in list order
RECURSIVE Elements(_)
Elements(l) ==
    IF l = <<>> THEN <<>>
    ELSE <<cnode[Head(l)].pool_element_ptr>> \o Elements(Tail(l))

\* libcache_clean: pops every node, releases its pool element and frees it;
\* the hash table is not touched
Clean ==
    /\ ~ub /\ ~destroyed
    /\ list' = <<>>
    /\ pool_busy' = pool_busy \ Range(Elements(list))
    /\ pool_free' = pool_free \o Elements(list)
    /\ cnode' = [n \in NodeIds |-> NoCacheNode]
    /\ reserved' = FreeOwner(reserved, Range(list))
    /\ hnode' = FreeCacheNodes(hnode, Range(list))
    /\ pins' = [s \in Slots |-> 0]
    /\ call' = Call("clean", NULL, LIBCACHE_SUCCESS, NULL, NoVal, NULL)
    /\ UNCHANGED <<poolVars, bucket, entry_count, list_count, hash_net,
                   mem, ub, destroyed, free_entry, freed>>

\* a destroy that frees the nodes without calling free_entry
free_entry_calls_none(l) == <<>>

\* the calls libcache_destroy makes while it pops the nodes of l: none when
\* free_entry is NULL, else free_entry(key of the node's hash node, slot)
RECURSIVE free_entry_calls(_)
free_entry_calls(l) ==
    IF l = <<>> \/ ~free_entry THEN <<>>
    ELSE <<[fn |-> "free_entry",
            key |-> hnode[cnode[Head(l)].hash_node_ptr].key,
            ptr |-> cnode[Head(l)].pool_element_ptr]>>
         \o free_entry_calls(Tail(l))

\* libcache_ptr->free_memory(libcache_ptr->pool): every slot goes at once
free_memory_call == [fn |-> "free_memory", key |-> 0, ptr |-> NULL]

\* libcache_destroy: frees every node, the pool memory, the hash table and
\* the cache object
Destroy ==
    /\ ~ub /\ ~destroyed
    /\ destroyed' = TRUE
    /\ freed' = free_entry_calls(list) \o <<free_memory_call>>
    /\ list' = <<>>
    /\ cnode' = [n \in NodeIds |-> NoCacheNode]
    /\ bucket' = [i \in 0..buckets_count |-> <<>>]
    /\ hnode' = [g \in HashIds |-> NoHashNode]
    /\ entry_count' = 0
    /\ list_count' = [i \in 0..buckets_count |-> 0]
    /\ hash_net' = 0
    /\ pool_free' = <<>>
    /\ pool_busy' = {}
    /\ reserved' = [s \in Slots |-> Dangling]
    /\ pins' = [s \in Slots |-> 0]
    /\ call' = Call("destroy", NULL, LIBCACHE_SUCCESS, NULL, NoVal, NULL)
    /\ UNCHANGED <<poolVars, mem, ub, free_entry>>

\* ------------------------------------- the file-scope pool of pool.c
\* The pool of pool.c is one file-scope object with its own free and busy
\* lists; libcache.c does not use it.  Addresses of its memory region are
\* byte offsets from pool.start_memory.  Its slot descriptors are the nodes
\* 1..PoolEntries; the cell of pool.element_link at index i is named
\* -(i + 1).
PoolEntries == 2
\* the longest free list the model follows
MaxFree == 4

\* the entry_size handed to pool_init_element_pool
entry_size == 6

\* while (entry_size % 4 != 0) entry_size++
RECURSIVE align_entry_size(_)
align_entry_size(size) ==
    IF size % 4 # 0 THEN align_entry_size(size + 1) ELSE size

element_size == align_entry_size(entry_size)

Descriptors == 1..PoolEntries

\* node->entry of the descriptor pool_init_element_pool makes i-th
entry_addr(node) == (node - 1) * element_size

get_index(element_addr) == element_addr \div element_size

\* pool.element_link + index: the address of a cell of the array.  The cells
\* stay zeroed, pool_init_element_pool stores each descriptor in a local.
element_link(index) == -(index + 1)

\* the free list pool_init_element_pool builds: every descriptor, in order
pool_init_element_pool == [i \in 1..PoolEntries |-> i]

\* the state libcache_create returns; the pool region is not initialised
Init ==
    /\ list = <<>>
    /\ cnode = [n \in NodeIds |-> NoCacheNode]
    /\ bucket = [i \in 0..buckets_count |-> <<>>]
    /\ hnode = [g \in HashIds |-> NoHashNode]
    /\ entry_count = 0
    /\ list_count = [i \in 0..buckets_count |-> 0]
    /\ hash_net = 0
    /\ pool_free = [i \in 1..Capacity |-> i]
    /\ pool_busy = {}
    /\ reserved = [s \in Slots |-> NULL]
    /\ mem \in [Slots -> Vals]
    /\ pins = [s \in Slots |-> 0]
    /\ call = Call("create", NULL, NoRet, NULL, NoVal, NULL)
    /\ ub = FALSE
    /\ destroyed = FALSE
    /\ free_entry \in BOOLEAN
    /\ freed = <<>>
    /\ free_list = pool_init_element_pool
    /\ busy_list = <<>>

\* the calls of a cache in use
Next == Add \/ Lookup \/ DeleteByKey \/ DeleteEntry \/ Unlock

Spec == Init /\ [][Next]_vars

\* the calls of a cache over its whole life
NextLife == Add \/ Lookup \/ DeleteByKey \/ DeleteEntry \/ Unlock \/ Clean \/ Destroy

SpecLife == Init /\ [][NextLife]_vars

\* ---------------------------------------------- the hash index on its own
\* The index used directly, as src/ut/hash_ut.cc uses it: the caller hands
\* hash_add an opaque value pointer and hands hash_del the key and the node
\* that hash_add or hash_find returned for it.  The caller adds up to the
\* max_entry the index was sized for.  There is no cache: its variables
\* stay empty.
HashAdd ==
    /\ entry_count < Capacity
    /\ HashIds \ HashLive # {}
    /\ \E key \in Keys, cache_node \in NodeIds :
          LET hash_node == malloc_hash(HashLive, cache_node)
          IN  /\ bucket' = hash_add_bucket(bucket, key, hash_node)
              /\ hnode' = hash_add_hnode(hnode, key, cache_node, hash_node)
              /\ entry_count' = hash_add_count(entry_count)
              /\ list_count' = hash_add_list_count(list_count, key)
              /\ hash_net' = hash_net + 1
              /\ call' = Call("hash_add", NULL, NoRet, hash_node, NoVal, NULL)
    /\ UNCHANGED <<poolVars, list, cnode, pool_free, pool_busy, reserved, mem, pins,
                   ub, destroyed, free_entry, freed>>

HashDel ==
    /\ \E hash_node \in HashLive :
          LET key == hnode[hash_node].key
          IN  /\ bucket' = hash_del_bucket(bucket, key, hash_node)
              /\ hnode' = hash_del_hnode(hnode, hash_node)
              /\ entry_count' = hash_del_count(entry_count)
              /\ list_count' = hash_del_list_count(list_count, key)
              /\ hash_net' = hash_net - 1
              /\ call' = Call("hash_del", hash_node, NoRet, NULL, NoVal, NULL)
    /\ UNCHANGED <<poolVars, list, cnode, pool_free, pool_busy, reserved, mem, pins,
                   ub, destroyed, free_entry, freed>>

HashFind ==
    /\ \E key \in Keys :
          call' = Call("hash_find", NULL, NoRet, hash_find(key), NoVal, NULL)
    /\ UNCHANGED <<poolVars, cacheVars, ub, destroyed, free_entry, freed>>

NextHash == HashAdd \/ HashDel \/ HashFind

\* the state hash_init returns; no pool memory and no finalizer exist
InitHash ==
    /\ Init
    /\ mem = [s \in Slots |-> 0]
    /\ free_entry = FALSE

SpecHash == InitHash /\ [][NextHash]_vars

\* ------------------------------------------------- sizing the hash index
\* capacities handed to hash_init: 0..MaxEntry and the powers of two up to
\* 2^MaxShift with their predecessors; keys: 0..MaxKey and 2^k - 1 up to
\* k = MaxKeyBits
MaxEntry == 8
MaxShift == 28
MaxKeyBits == 14

SizingEntries ==
    (0..MaxEntry) \cup {2 ^ k : k \in 1..MaxShift}
                  \cup {2 ^ k - 1 : k \in 1..MaxShift}

SizingKeys == Keys \cup {2 ^ k - 1 : k \in 1..MaxKeyBits}

\* the sizing fields hash_init gives the table, and the number of bucket_t
\* it allocates: (buckets_count + 1), which does not wrap below 32 bits
hash_init(max_entry) ==
    LET b == get_bits(max_entry)
        n == get_bucket_number(b)
    IN  [op |-> "hash_init", max_entry |-> max_entry, bits |-> b,
         buckets_count |-> n, allocated |-> n + 1,
         key |-> 0, hash_code |-> 0]

HashInit ==
    /\ \E max_entry \in SizingEntries : call' = hash_init(max_entry)
    /\ UNCHANGED <<poolVars, cacheVars, ub, destroyed, free_entry, freed>>

\* key_to_hash on the table the last hash_init made
KeyToHash ==
    /\ call.op \in {"hash_init", "key_to_hash"}
    /\ \E key \in SizingKeys :
          call' = [call EXCEPT !.op = "key_to_hash", !.key = key,
                               !.hash_code = hash_32(k2num(key), call.bits)]
    /\ UNCHANGED <<poolVars, cacheVars, ub, destroyed, free_entry, freed>>

NextSizing == HashInit \/ KeyToHash

SpecSizing == Init /\ [][NextSizing]_vars

\* ------------------------------------------ calls with a stale address
\* An address whose entry was deleted: the pool slot is free, its reserved
\* pointer still holds the freed list node, and libcache_unlock_entry reads
\* libcache_node->usr_data through it.
StaleUnlock ==
    /\ ~ub /\ ~destroyed
    /\ \E entry \in Slots : ~ValidEntry(entry) /\ Undefined("unlock", entry)

\* libcache_delete_entry reads the freed node in the same way
StaleDeleteEntry ==
    /\ ~ub /\ ~destroyed
    /\ \E entry \in Slots :
          ~ValidEntry(entry) /\ Undefined("delete_entry", entry)

\* the calls of a cache in use by a caller that also keeps addresses of
\* entries that are gone
NextStale == Next \/ StaleUnlock \/ StaleDeleteEntry

SpecStale == Init /\ [][NextStale]_vars

\* --------------------------------------- the file-scope pool on its own
OK == "OK"
ERR == "ERR"

\* the addresses handed to pool_free_element: the entry of every descriptor
\* and the first address after the region
PoolAddrs ==
    {entry_addr(node) : node \in Descriptors} \cup {PoolEntries * element_size}

list_back(l) == IF l = <<>> THEN NULL ELSE l[Len(l)]

list_pop_back(l) == IF l = <<>> THEN l ELSE SubSeq(l, 1, Len(l) - 1)

\* pool_get_element: the last free node leaves the free list; the busy list
\* is pushed only when that node is NULL.  What list_push_back does with a
\* NULL node is not defined by list.h: it returns, or it reads through NULL.
PoolGetElement ==
    /\ ~ub
    /\ LET node == list_back(free_list)
       IN  /\ free_list' = list_pop_back(free_list)
           /\ busy_list' = busy_list
           /\ IF node = NULL THEN ub' \in BOOLEAN ELSE ub' = ub
           /\ call' = Call("pool_get_element", NULL, NoRet, node, NoVal, NULL)
    /\ UNCHANGED <<cacheVars, destroyed, free_entry, freed>>

\* pool_free_element: node is the address of a cell of element_link, which
\* is NULL for no index; the cell is taken off the busy list and pushed on
\* the free list.  For an address outside the region the cell lies outside
\* the array and the list calls write outside it: the call returns OK or
\* does not return.
PoolFreeElement ==
    /\ ~ub
    /\ Len(free_list) < MaxFree
    /\ \E element \in PoolAddrs :
          LET index == get_index(element)
              node == element_link(index)
          IN  IF node = NULL
              THEN /\ call' = Call("pool_free_element", element, ERR, NULL,
                                   NoVal, NULL)
                   /\ UNCHANGED <<poolVars, ub>>
              ELSE /\ busy_list' = list_remove(busy_list, node)
                   /\ free_list' = list_push_back(free_list, node)
                   /\ IF index \in 0..(PoolEntries - 1)
                      THEN /\ ub' = ub
                           /\ call' = Call("pool_free_element", element, OK,
                                           NULL, NoVal, NULL)
                      ELSE /\ ub' = TRUE
                           /\ \E r \in {OK, NoRet} :
                                  call' = Call("pool_free_element", element, r,
                                               NULL, NoVal, NULL)
    /\ UNCHANGED <<cacheVars, destroyed, free_entry, freed>>

NextPool == PoolGetElement \/ PoolFreeElement

\* the state pool_init and pool_init_element_pool leave; there is no cache
InitPool ==
    /\ Init
    /\ mem = [s \in Slots |-> 0]
    /\ free_entry = FALSE

SpecPool == InitPool /\ [][NextPool]_vars

\* ================================================================ claims
Resident(key) == \E n \in Range(list) : cnode[n].key = key

Pinned(n) == cnode[n].lock_counter > 0

\* the resident nodes that hold key
Holders(key) == {n \in Range(list) : cnode[n].key = key}

\* node n is indexed: its hash node sits in the bucket of its key and
\* carries its key and its address
Indexed(n) ==
    LET g == cnode[n].hash_node_ptr
    IN  /\ g \in Range(bucket[key_to_hash(cnode[n].key)])
        /\ hnode[g] = [key |-> cnode[n].key, cache_node_ptr |-> n]

\* the unlocked node closest to the tail of the LRU list
LastUnlocked ==
    LET idx == {i \in 1..Len(list) : ~Pinned(list[i])}
    IN  list[CHOOSE i \in idx : \A j \in idx : j <= i]

AllPinned == \A n \in Range(list) : Pinned(n)

Srcs == Vals \cup {NoVal}

\* C1: Across every add, lookup, delete_by_key, delete_by_entry and unlock
\* call, an entry that is pinned when the call starts is still in the LRU
\* list and in the hash index afterwards, under the same key and at the same
\* payload address, and its payload is unchanged: it is not the node add
\* swaps out, and a delete_by_entry on its address answers Locked.
C1_PinnedStep ==
    \A n \in NodeIds :
        (n \in Range(list) /\ Pinned(n)) =>
            /\ n \in Range(list')
            /\ cnode'[n].key = cnode[n].key
            /\ cnode'[n].pool_element_ptr = cnode[n].pool_element_ptr
            /\ mem'[cnode[n].pool_element_ptr] = mem[cnode[n].pool_element_ptr]
            /\ Indexed(n)'
            /\ cnode[n].pool_element_ptr \in pool_busy'
            /\ call'.victim # n
            /\ (call'.op = "delete_entry" /\ call'.entry = cnode[n].pool_element_ptr)
                   => call'.ret = LIBCACHE_LOCKED

C1_PinnedEntryStays == [][C1_PinnedStep]_vars

\* delete_by_entry was refused on a pinned entry, which is still resident
C1_Witness ==
    /\ call.op = "delete_entry" /\ call.ret = LIBCACHE_LOCKED
    /\ call.entry \in pool_busy
    /\ reserved[call.entry] \in Range(list)
    /\ Pinned(reserved[call.entry])

\* C2: When add is given a key that is not resident while the LRU list is
\* at capacity and some entry is unpinned, the node it swaps out is the
\* unpinned one closest to the LRU tail; every other entry keeps its node,
\* key, payload address and hash entry, the swapped node carries the new
\* key at the LRU front, and size() is still the capacity.
C2_AddStep ==
    \A key \in Keys, src \in Srcs :
        (/\ libcache_add(key, src)
         /\ Len(list) >= Capacity
         /\ ~Resident(key)
         /\ ~AllPinned)
        => LET v == LastUnlocked
           IN  /\ call'.victim = v
               /\ call'.ptr = cnode[v].pool_element_ptr
               /\ list' = <<v>> \o list_remove(list, v)
               /\ cnode'[v].key = key
               /\ \A n \in Range(list) \ {v} : cnode'[n] = cnode[n] /\ Indexed(n)'
               /\ hash_get_count' = Capacity

C2_EvictsLastUnlocked == [][C2_AddStep]_vars

\* add swapped out a node that was not at the LRU tail, because the tail is
\* pinned
C2_Witness ==
    /\ call.op = "add" /\ call.victim # NULL
    /\ Len(list) = Capacity
    /\ Pinned(list[Len(list)])
    /\ list[Len(list)] # call.victim
    /\ list[1] = call.victim

\* C3: add returns no pointer exactly when the key is already resident or
\* the cache is at capacity with every resident entry pinned; otherwise it
\* returns the payload address of the entry it inserted under that key.
C3_AddStep ==
    \A key \in Keys, src \in Srcs :
        libcache_add(key, src) =>
            /\ (call'.ptr = NULL) <=>
                   (Resident(key) \/ (Len(list) >= Capacity /\ AllPinned))
            /\ call'.ptr # NULL =>
                   /\ cnode'[Head(list')].key = key
                   /\ cnode'[Head(list')].pool_element_ptr = call'.ptr

C3_AddReturnsNothingIff == [][C3_AddStep]_vars

\* C4: The LRU list, the hash index (whose count size() returns) and the
\* pool's busy list always hold the same number of items, at most capacity.
C4_CountsAgree ==
    /\ Len(list) = hash_get_count
    /\ hash_get_count = Cardinality(pool_busy)
    /\ Cardinality(HashLive) = hash_get_count
    /\ hash_get_count <= Capacity

\* a full cache whose last add swapped a node out
C4_Witness ==
    /\ call.op = "add" /\ call.victim # NULL
    /\ hash_get_count = Capacity

\* C5: After clean() returns Success on a cache with no pinned entry,
\* size() is 0, the hash index holds no entry, every pool slot is free and
\* no key is found any more (so lookup misses and add proceeds).
C5_CleanStep ==
    (~(\E n \in Range(list) : Pinned(n))
     /\ call'.op = "clean" /\ call'.ret = LIBCACHE_SUCCESS)
    => /\ hash_get_count' = 0
       /\ HashLive' = {}
       /\ pool_busy' = {}
       /\ \A key \in Keys : hash_find(key)' = NULL

C5_CleanEmpties == [][C5_CleanStep]_vars

\* C6: clean() and destroy() return Locked and remove nothing when some
\* resident entry is pinned.
C6_LockedStep ==
    ((\E n \in Range(list) : Pinned(n)) /\ call'.op \in {"clean", "destroy"})
    => /\ call'.ret = LIBCACHE_LOCKED
       /\ list' = list
       /\ hash_get_count' = hash_get_count
       /\ pool_busy' = pool_busy

C6_CleanDestroyRefusePinned == [][C6_LockedStep]_vars

\* C7: delete_by_key answers NotFound for a key that is not resident, Locked
\* for a pinned entry and Success otherwise; after Success the key is in
\* neither the LRU list nor the hash index, size() is one less and one more
\* pool slot is free.
C7_DeleteStep ==
    \A key \in Keys :
        libcache_delete_by_key("delete_by_key", key, NULL) =>
            /\ Holders(key) = {} => call'.ret = LIBCACHE_NOT_FOUND
            /\ (Holders(key) # {} /\ \A n \in Holders(key) : Pinned(n))
                   => call'.ret = LIBCACHE_LOCKED
            /\ (Holders(key) # {} /\ \A n \in Holders(key) : ~Pinned(n))
                   => /\ call'.ret = LIBCACHE_SUCCESS
                      /\ ~Resident(key)'
                      /\ hash_find(key)' = NULL
                      /\ hash_get_count' = hash_get_count - 1
                      /\ Len(pool_free') = Len(pool_free) + 1

C7_DeleteByKeyResults == [][C7_DeleteStep]_vars

\* C8: For the payload address of a resident entry with key k,
\* delete_by_entry does what delete_by_key(k) does: Locked for a pinned
\* entry, otherwise Success, after which k is not found.
C8_DeleteEntryStep ==
    \A entry \in Slots :
        (entry \in pool_busy /\ ValidEntry(entry) /\ libcache_delete_entry(entry))
        => \E k \in Keys :
               /\ k = cnode[reserved[entry]].key
               /\ libcache_delete_by_key("delete_entry", k, entry)
               /\ Pinned(reserved[entry]) => call'.ret = LIBCACHE_LOCKED
               /\ ~Pinned(reserved[entry]) =>
                      /\ call'.ret = LIBCACHE_SUCCESS
                      /\ hash_find(k)' = NULL

C8_DeleteEntryAsByKey == [][C8_DeleteEntryStep]_vars

\* C9: For a resident entry, lock_counter is the number of pins taken on it
\* (add without src, lookup without dst) minus the number of unlocks that
\* answered Success; unlock answers Success and lowers it by one while that
\* number is positive, and answers AlreadyUnlocked and leaves it 0 once it
\* is 0.  It is never negative.
C9_Balance ==
    \A e \in pool_busy :
        /\ cnode[reserved[e]].lock_counter = pins[e]
        /\ pins[e] >= 0

C9_UnlockStep ==
    /\ C9_Balance /\ C9_Balance'
    /\ \A entry \in Slots :
           (entry \in pool_busy /\ ValidEntry(entry) /\ libcache_unlock_entry(entry))
           => IF pins[entry] > 0
              THEN /\ call'.ret = LIBCACHE_SUCCESS
                   /\ cnode'[reserved[entry]].lock_counter = pins[entry] - 1
              ELSE /\ call'.ret = LIBCACHE_UNLOCKED
                   /\ cnode'[reserved[entry]].lock_counter = 0

C9_UnlockSymmetry == [][C9_UnlockStep]_vars

\* the last of as many successful unlocks as pins were taken on an entry
C9_Witness ==
    /\ call.op = "unlock" /\ call.ret = LIBCACHE_SUCCESS
    /\ call.entry \in pool_busy
    /\ pins[call.entry] = 0
    /\ cnode[reserved[call.entry]].lock_counter = 0

\* C10: lookup of a resident key with dst copies the payload into dst,
\* returns dst and changes no pin-count; without dst it adds exactly one to
\* the entry's pin-count and returns its payload address.  Lookup of a key
\* that is not resident returns nothing.
C10_LookupStep ==
    \A key \in Keys, dst \in {NULL, DstPtr} :
        libcache_lookup(key, dst) =>
            IF Holders(key) = {} THEN call'.ptr = NULL
            ELSE \E n \in Holders(key) :
                    IF dst # NULL
                    THEN /\ call'.ptr = dst
                         /\ call'.dst = mem[cnode[n].pool_element_ptr]
                         /\ \A m \in Range(list) :
                                cnode'[m].lock_counter = cnode[m].lock_counter
                    ELSE /\ call'.ptr = cnode[n].pool_element_ptr
                         /\ cnode'[n].lock_counter = cnode[n].lock_counter + 1

C10_LookupResults == [][C10_LookupStep]_vars

\* C11: A lookup (with or without dst) or an add that returns a pointer
\* leaves the entry it touched at the front of the LRU list, under the key of
\* the call, with every other resident node behind it in the order they had
\* before; every other call leaves the order as it was or takes one node
\* out of it.  So the list runs from the most recently touched entry to the
\* least recently touched one.
C11_TouchStep ==
    /\ \A key \in Keys, dst \in {NULL, DstPtr} :
           (libcache_lookup(key, dst) /\ call'.ptr # NULL) =>
               /\ list' # <<>>
               /\ cnode'[Head(list')].key = key
               /\ Head(list') \in Range(list)
               /\ Tail(list') = list_remove(list, Head(list'))
    /\ \A key \in Keys, src \in Srcs :
           (libcache_add(key, src) /\ call'.ptr # NULL) =>
               /\ list' # <<>>
               /\ cnode'[Head(list')].key = key
               /\ cnode'[Head(list')].pool_element_ptr = call'.ptr
               /\ Tail(list') = list_remove(list, Head(list'))
    /\ (call'.op \notin {"lookup", "add"} \/ call'.ptr = NULL) =>
           \/ list' = list
           \/ \E n \in Range(list) : list' = list_remove(list, n)

C11_TouchedGoesFront == [][C11_TouchStep]_vars

\* a pinning lookup hit in a full cache: its entry is at the front, ahead of
\* another pinned entry
C11_Witness ==
    /\ call.op = "lookup" /\ call.ptr \in Slots
    /\ Len(list) = Capacity
    /\ cnode[Head(list)].pool_element_ptr = call.ptr
    /\ \E n \in Range(list) : n # Head(list) /\ Pinned(n)

\* C12: An add that returns a pointer, on a new node or on a swapped one,
\* leaves the entry's lock_counter at 1 when src was absent and at 0 when src
\* was given, and the key is then found: hash_find gives the hash node of
\* the entry just inserted, so a lookup that follows at once hits it.
C12_AddStep ==
    \A key \in Keys, src \in Srcs :
        (libcache_add(key, src) /\ call'.ptr # NULL) =>
            LET n == Head(list')
            IN  /\ cnode'[n].pool_element_ptr = call'.ptr
                /\ cnode'[n].key = key
                /\ cnode'[n].lock_counter = IF src = NoVal THEN 1 ELSE 0
                /\ hash_find(key)' # NULL
                /\ hnode'[hash_find(key)'].cache_node_ptr = n

C12_AddedIsPinnedAndFound == [][C12_AddStep]_vars

\* C13: add on a key that is resident returns no pointer and changes
\* nothing: payloads, LRU order, every lock_counter (also when src is
\* absent), the hash index and size() are as before.
C13_DuplicateStep ==
    \A key \in Keys, src \in Srcs :
        (libcache_add(key, src) /\ Resident(key)) =>
            /\ call'.ptr = NULL
            /\ mem' = mem
            /\ list' = list
            /\ cnode' = cnode
            /\ bucket' = bucket /\ hnode' = hnode
            /\ hash_get_count' = hash_get_count

C13_DuplicateAddChangesNothing == [][C13_DuplicateStep]_vars

\* C14: Round trip.  An add(k, v) that returns a pointer has stored v in the
\* entry's slot; no later call changes the slot of an entry that stays
\* resident (neither deleted nor swapped out); and lookup(k, dst) of a
\* resident k returns dst with the slot's content copied into it.  So the
\* buffer holds the v of the add for as long as k stays resident.
C14_RoundTripStep ==
    /\ \A key \in Keys, src \in Vals :
           (libcache_add(key, src) /\ call'.ptr # NULL) =>
               mem'[call'.ptr] = src
    /\ \A n \in Range(list) :
           (n \in Range(list') /\ call'.victim # n) =>
               /\ cnode'[n].key = cnode[n].key
               /\ cnode'[n].pool_element_ptr = cnode[n].pool_element_ptr
               /\ mem'[cnode[n].pool_element_ptr] = mem[cnode[n].pool_element_ptr]
    /\ \A key \in Keys :
           (libcache_lookup(key, DstPtr) /\ Resident(key)) =>
               /\ call'.ptr = DstPtr
               /\ \A n \in Holders(key) :
                      call'.dst = mem[cnode[n].pool_element_ptr]

C14_RoundTrip == [][C14_RoundTripStep]_vars

\* C15: Pointer stability.  The address add(k, ...) returns is the slot of
\* the entry now resident under k; an entry that stays resident (neither
\* deleted nor swapped out) keeps its key and its slot across every call;
\* and lookup(k) without dst on a resident k returns that slot.  So every
\* later lookup(k) returns the address the first one or the add returned.
C15_PointerStep ==
    /\ \A key \in Keys, src \in Srcs :
           (libcache_add(key, src) /\ call'.ptr # NULL) =>
               \E n \in Holders(key)' : cnode'[n].pool_element_ptr = call'.ptr
    /\ \A n \in Range(list) :
           (n \in Range(list') /\ call'.victim # n) =>
               /\ cnode'[n].key = cnode[n].key
               /\ cnode'[n].pool_element_ptr = cnode[n].pool_element_ptr
    /\ \A key \in Keys :
           (libcache_lookup(key, NULL) /\ Resident(key)) =>
               \A n \in Holders(key) : call'.ptr = cnode[n].pool_element_ptr

C15_PointerStable == [][C15_PointerStep]_vars

\* C16: A call that reports a failure other than a duplicate key (add
\* returning nothing for a key that is not resident, delete_by_key or
\* delete_by_entry answering NotFound or Locked, unlock answering NotFound
\* or AlreadyUnlocked, lookup returning nothing) leaves the LRU list, the
\* hash index, the pool's busy and free lists, every node's fields (its
\* lock_counter among them) and every payload as they were.
C16_Frame ==
    /\ list' = list
    /\ bucket' = bucket /\ hnode' = hnode /\ entry_count' = entry_count
    /\ list_count' = list_count
    /\ pool_busy' = pool_busy /\ pool_free' = pool_free
    /\ reserved' = reserved
    /\ cnode' = cnode
    /\ mem' = mem

C16_FailureStep ==
    /\ \A key \in Keys, src \in Srcs :
           (libcache_add(key, src) /\ ~Resident(key) /\ call'.ptr = NULL)
               => C16_Frame
    /\ (/\ call'.op \in {"delete_by_key", "delete_entry"}
        /\ call'.ret \in {LIBCACHE_NOT_FOUND, LIBCACHE_LOCKED}) => C16_Frame
    /\ (/\ call'.op = "unlock"
        /\ call'.ret \in {LIBCACHE_NOT_FOUND, LIBCACHE_UNLOCKED}) => C16_Frame
    /\ (call'.op = "lookup" /\ call'.ptr = NULL) => C16_Frame

C16_FailureChangesNothing == [][C16_FailureStep]_vars

\* unlock has answered AlreadyUnlocked for a resident entry of a full cache
C16_Witness ==
    /\ call.op = "unlock" /\ call.ret = LIBCACHE_UNLOCKED
    /\ call.entry \in pool_busy
    /\ Len(list) = Capacity
    /\ cnode[reserved[call.entry]].lock_counter = 0

\* C17: destroy() calls free_entry exactly once for every entry resident
\* when it is called, with that entry's key and payload address, and calls
\* free_memory, which releases the slots, only after the last of these
\* calls; when free_entry is NULL it calls no finalizer.
C17_FinalizerCalls == SelectSeq(freed, LAMBDA c : c.fn = "free_entry")

C17_DestroyStep ==
    call'.op = "destroy" =>
        LET calls == C17_FinalizerCalls'
        IN  /\ Len(freed') = Len(calls) + 1
            /\ freed'[Len(freed')].fn = "free_memory"
            /\ IF free_entry
               THEN /\ Len(calls) = Len(list)
                    /\ \A n \in Range(list) :
                           Cardinality({i \in 1..Len(calls) :
                               /\ calls[i].key = cnode[n].key
                               /\ calls[i].ptr = cnode[n].pool_element_ptr}) = 1
               ELSE calls = <<>>

C18_DistinctKeys ==
    \A g, h \in HashLive : hnode[g].key = hnode[h].key => g = h

C18_FindFindsStored ==
    C18_DistinctKeys =>
        \A key \in Keys :
            IF \E g \in HashLive : hnode[g].key = key
            THEN /\ hash_find(key) \in HashLive
                 /\ hnode[hash_find(key)].key = key
            ELSE hash_find(key) = NULL

\* C19: hash_init(capacity) sets bits to the smallest b with
\* 2^b - 1 >= capacity, for every capacity from 0 on, and allocates exactly
\* 2^bits buckets, so the bucket index of every key, the top bits of
\* to_int(key) * 0x9E370001 mod 2^32, addresses an allocated bucket.
C19_SmallestBits(capacity) ==
    CHOOSE b \in 0..(MaxShift + 2) :
        /\ 2 ^ b - 1 >= capacity
        /\ \A c \in 0..(b - 1) : 2 ^ c - 1 < capacity

C19_Sizing ==
    call.op \in {"hash_init", "key_to_hash"} =>
        /\ call.bits = C19_SmallestBits(call.max_entry)
        /\ call.allocated = 2 ^ call.bits
        /\ call.op = "key_to_hash" =>
               /\ call.hash_code >= 0
               /\ call.hash_code < call.allocated

\* C20: After any sequence of hash add and delete calls, count() is the
\* number of adds minus the number of deletes that succeeded and is the sum
\* of the buckets' list_count; a delete that succeeds lowers count() by
\* exactly 1 and takes exactly the entry handed to it out of the index.
RECURSIVE C20_SumTo(_, _)
C20_SumTo(f, n) == IF n < 0 THEN 0 ELSE f[n] + C20_SumTo(f, n - 1)

C20_Counts ==
    /\ hash_get_count = hash_net
    /\ hash_get_count = C20_SumTo(list_count, buckets_count)
    /\ \A i \in 0..buckets_count : list_count[i] = Len(bucket[i])

C20_HashStep ==
    /\ C20_Counts /\ C20_Counts'
    /\ call'.op = "hash_add" =>
           /\ hash_get_count' = hash_get_count + 1
           /\ HashLive' = HashLive \cup {call'.ptr}
    /\ call'.op = "hash_del" =>
           /\ hash_get_count' = hash_get_count - 1
           /\ call'.entry \in HashLive
           /\ HashLive' = HashLive \ {call'.entry}
           /\ \A g \in HashLive' : hnode'[g] = hnode[g]
           /\ \A i \in 0..buckets_count :
                  bucket'[i] = list_remove(bucket[i], call'.entry)

C20_HashCounts == [][C20_HashStep]_vars

\* a delete has taken an entry out of an index that still holds another
C20_Witness ==
    /\ call.op = "hash_del"
    /\ hash_get_count >= 1
    /\ \E i \in 0..buckets_count : list_count[i] >= 1 /\ Len(bucket[i]) >= 1
    /\ hash_net = hash_get_count

\* C21: Between any two public calls, every node of the LRU list has exactly
\* one hash entry that carries its key and points back to it, the node's
\* hash_node_ptr is that entry, and every hash entry points to a node of
\* the LRU list.
C21_EntriesOf(n) ==
    {g \in HashLive : hnode[g].key = cnode[n].key /\ hnode[g].cache_node_ptr = n}

C21_IndexMatchesList ==
    /\ \A n \in Range(list) :
           /\ Cardinality(C21_EntriesOf(n)) = 1
           /\ cnode[n].hash_node_ptr \in C21_EntriesOf(n)
    /\ \A g \in HashLive : hnode[g].cache_node_ptr \in Range(list)

\* C22: Resolver consistency.  Between any two public calls, the reserved
\* pointer of the payload address of every resident entry is the list node
\* of that entry, and no other resident entry has that payload address.
C22_OwnerIsNode ==
    \A n \in Range(list) :
        /\ cnode[n].pool_element_ptr \in Slots
        /\ pool_get_reserved_pointer(cnode[n].pool_element_ptr) = n
        /\ \A m \in Range(list) :
               cnode[m].pool_element_ptr = cnode[n].pool_element_ptr => m = n

\* a full cache whose last add reused a slot through eviction: the slot's
\* owner is the node that was swapped
C22_Witness ==
    /\ call.op = "add" /\ call.victim # NULL
    /\ Len(list) = Capacity
    /\ call.ptr \in Slots
    /\ pool_get_reserved_pointer(call.ptr) = call.victim
    /\ call.victim = Head(list)

\* C23: The pin-count of a resident entry changes only through a lookup
\* without dst (+1 on the entry found), an add without src (the new entry
\* starts at 1) and a successful unlock (-1 on that entry).  A lookup with
\* dst, an add with src (the new entry starts at 0), a failed add, a delete
\* of another entry and the eviction of another entry leave the pin-count of
\* every entry that stays in the cache as it was.
C23_Delta(n) ==
    IF call'.op = "lookup" /\ call'.ptr = cnode[n].pool_element_ptr THEN 1
    ELSE IF /\ call'.op = "unlock" /\ call'.ret = LIBCACHE_SUCCESS
            /\ pool_get_reserved_pointer(call'.entry) = n THEN -1
    ELSE 0

C23_PinStep ==
    ~ub' =>
      /\ \A n \in Range(list) \cap Range(list') :
             ~(call'.op = "add" /\ call'.victim = n) =>
                 cnode'[n].lock_counter = cnode[n].lock_counter + C23_Delta(n)
      /\ \A key \in Keys, src \in Srcs :
             (~ub /\ ~destroyed /\ libcache_add(key, src) /\ call'.ptr # NULL) =>
                 cnode'[reserved'[call'.ptr]].lock_counter =
                     IF src = NoVal THEN 1 ELSE 0
      /\ \A key \in Keys :
             (~ub /\ ~destroyed /\ libcache_lookup(key, DstPtr)) =>
                 \A n \in Range(list) :
                     cnode'[n].lock_counter = cnode[n].lock_counter

C23_PinCountFrame == [][C23_PinStep]_vars

\* an add with src has just evicted an entry while the other entry of the
\* full cache holds pins
C23_Witness ==
    /\ call.op = "add" /\ call.victim # NULL
    /\ cnode[call.victim].lock_counter = 0
    /\ \E n \in Range(list) :
           n # call.victim /\ cnode[n].lock_counter = MaxPins

\* C24: Pool partition.  After any sequence of pool_get_element and
\* pool_free_element calls every slot descriptor is on exactly one of the
\* free list and the busy list; the descriptor pool_get_element handed out is
\* on the busy list and the descriptor of a released address is on the free
\* list.
C24_OnFree(node) == node \in Range(free_list)

C24_OnBusy(node) == node \in Range(busy_list)

C24_DescriptorOf(element) == get_index(element) + 1

C24_PoolPartition ==
    ~ub =>
      /\ \A node \in Descriptors : C24_OnFree(node) # C24_OnBusy(node)
      /\ (call.op = "pool_get_element" /\ call.ptr # NULL) =>
             C24_OnBusy(call.ptr)
      /\ (call.op = "pool_free_element" /\ call.ret = OK) =>
             C24_OnFree(C24_DescriptorOf(call.entry))

\* C25: pool_free_element of an address outside the pool region, or of an
\* address whose descriptor is already on the free list, returns an error
\* and leaves the free list and the busy list as they were.
C25_OutsideRegion(element) == get_index(element) \notin 0..(PoolEntries - 1)

C25_ReleaseStep ==
    (/\ call'.op = "pool_free_element"
     /\ \/ C25_OutsideRegion(call'.entry)
        \/ C24_OnFree(C24_DescriptorOf(call'.entry)))
    => /\ call'.ret = ERR
       /\ UNCHANGED <<free_list, busy_list>>

C25_BadReleaseFails == [][C25_ReleaseStep]_vars

\* C26: Key uniqueness.  After any sequence of add, lookup, delete_by_key,
\* delete_entry and unlock calls no two nodes of the LRU list hold equal
\* keys, whether or not the keys of the cache share a bucket.
C26_KeysUnique ==
    \A n, m \in Range(list) : cnode[n].key = cnode[m].key => n = m

\* C27: libcache_unlock_entry(p) and libcache_delete_entry(p) act only on the
\* entry p was returned for.  When that entry has been deleted, or has been
\* evicted and its slot reused for another key, the call returns
\* LIBCACHE_NOT_FOUND, changes no pin-count and removes no entry.
C27_Deleted(p) == pool_get_reserved_pointer(p) = Dangling

\* the last call evicted the entry p was returned for and reused its slot
C27_EvictedAndReused(p) ==
    call.op = "add" /\ call.victim # NULL /\ call.ptr = p

C27_StaleStep ==
    \A p \in Slots :
        (/\ C27_Deleted(p) \/ C27_EvictedAndReused(p)
         /\ call'.op \in {"unlock", "delete_entry"}
         /\ call'.entry = p)
        => /\ call'.ret = LIBCACHE_NOT_FOUND
           /\ list' = list
           /\ \A n \in NodeIds :
                  cnode'[n].lock_counter = cnode[n].lock_counter

C27_StaleAddressRefused == [][C27_StaleStep]_vars

\* C28: libcache_add without src_entry writes no payload byte.  When it
\* reuses a slot through eviction, the payload at the address it returns is
\* the last payload of the evicted entry, the key buffer of the slot holds
\* the new key and its pin-count is 1.
C28_AddStep ==
    \A key \in Keys :
        (~ub /\ ~destroyed /\ libcache_add(key, NoVal)) =>
            /\ mem' = mem
            /\ call'.victim # NULL =>
                   LET node == call'.victim
                       element == cnode[node].pool_element_ptr
                   IN  /\ call'.ptr = element
                       /\ mem'[call'.ptr] = mem[element]
                       /\ cnode'[node].pool_element_ptr = element
                       /\ cnode'[node].key = key
                       /\ cnode'[node].lock_counter = 1

C28_AddWithoutSrcKeepsPayload == [][C28_AddStep]_vars

\* an add without src has reused the slot of an evicted entry whose payload
\* was not zero
C28_Witness ==
    /\ call.op = "add" /\ call.victim # NULL
    /\ cnode[call.victim].lock_counter = 1
    /\ pins[call.ptr] = 1
    /\ mem[call.ptr] = MaxVal

====
